---------------------------- MODULE Spec2Model ----------------------------
(***************************************************************************)
(* Model of the cleveldb Python binding of eleve                           *)
(* (src/eleve/c_leveldb/python.cpp): the list conversion `convert`, the    *)
(* PyLeveldbTrie and PyLeveldbStorage forwarding wrappers and the method   *)
(* tables of BOOST_PYTHON_MODULE(cleveldb).  The engine the wrappers       *)
(* forward to (LeveldbTrie, LeveldbStorage: leveldb_storage.hpp) has no    *)
(* source in the repository files at hand; its operators, named Trie_* and *)
(* Storage_*, follow the design document.                                  *)
(*                                                                         *)
(* Real numbers are fixed-point: a float result is an integer number of    *)
(* thousandths, except the count a Storage returns, which is the nearest   *)
(* IEEE-754 single to the stored integer (ToFloat).                        *)
(***************************************************************************)
EXTENDS Integers, Sequences, FiniteSets, TLC

VARIABLES
    obj,          \* what the Python program exercises: a Trie ("trie"), a Trie it
                  \* closes and constructs again ("reopen"), a Storage ("storage")
                  \* or the list conversion alone ("convert")
    alive,        \* the Python process is running (no crash so far)
    conv,         \* last conversion: the list given and what convert returned
    trie,         \* the PyLeveldbTrie instance and the store at its path
    hist,         \* record of the calls made on the Trie (what the caller did)
    storage,      \* the PyLeveldbStorage instance
    shist         \* record of the calls made on the Storage

vars == <<obj, alive, conv, trie, hist, storage, shist>>

---------------------------------------------------------------------------
(* Bounds of the model *)

MaxLen == 2          \* longest list handed to a Trie operation
MaxAdds == 2         \* add_ngram calls between two clears of a Trie
MaxLifeAdds == 1     \* the same, for a Trie that is closed and constructed again
MaxConvLen == 3      \* longest list handed to convert on its own
Order == 2           \* the order a Storage is constructed with
MaxSentLen == 2      \* longest sentence handed to add_sentence
MaxSentences == 1    \* add_sentence calls between two clears of a Storage

Max(a, b) == IF a >= b THEN a ELSE b

---------------------------------------------------------------------------
(* Python values held by a py::list.  `text` is the text of a str object,   *)
(* and for any other object the text its __str__ returns.  `ok` is FALSE    *)
(* for a str that has no UTF-8 encoding (a lone surrogate) and for an       *)
(* object whose __str__ raises.                                            *)

PyStr(t) == [kind |-> "str", text |-> t, ok |-> TRUE]
PyInt(t) == [kind |-> "int", text |-> t, ok |-> TRUE]
PySurrogate == [kind |-> "str", text |-> "\\ud800", ok |-> FALSE]
PyRaising == [kind |-> "obj", text |-> "<obj>", ok |-> FALSE]

GoodValues == {PyStr("a"), PyInt("1")}
AllValues == GoodValues \cup {PySurrogate, PyRaising}

ListsOf(S, n) == UNION {[1..k -> S] : k \in 0..n}

PyLists == ListsOf(GoodValues, MaxLen)

(* CPython calls used by convert.  A failing call returns NULL. *)
NULL == [null |-> TRUE, text |-> ""]
Ptr(t) == [null |-> FALSE, text |-> t]

PyUnicode_Check(o) == o.kind = "str"
PyUnicode_AsUTF8AndSize(o) == IF o.ok THEN Ptr(o.text) ELSE NULL
(* PyObject_Str(o): a new str object holding str(o), or NULL when __str__ raises *)
PyObject_Str(o) == IF o.ok THEN [null |-> FALSE, obj |-> PyStr(o.text)]
                   ELSE [null |-> TRUE, obj |-> PyStr("")]

(* std::string(u, s) as convert builds it.  With u = NULL the size s was    *)
(* never written: the build either throws/aborts or, when s happens to be   *)
(* 0, yields the empty string.                                             *)
MakeString(u) ==
    IF u.null THEN {[crash |-> TRUE, tok |-> ""], [crash |-> FALSE, tok |-> ""]}
    ELSE {[crash |-> FALSE, tok |-> u.text]}

(* One iteration of convert's loop: the outcomes for element o. *)
ConvertElem(o) ==
    IF PyUnicode_Check(o)
    THEN MakeString(PyUnicode_AsUTF8AndSize(o))
    ELSE LET s == PyObject_Str(o) IN
         IF s.null
         THEN {[crash |-> TRUE, tok |-> ""]}   \* PyUnicode_AsUTF8AndSize(NULL)
         ELSE MakeString(PyUnicode_AsUTF8AndSize(s.obj))

RECURSIVE ConvertFrom(_, _, _)
ConvertFrom(ngram, i, r) ==
    IF i > Len(ngram)
    THEN {[crash |-> FALSE, r |-> r]}
    ELSE UNION { IF e.crash
                 THEN {[crash |-> TRUE, r |-> <<>>]}
                 ELSE ConvertFrom(ngram, i + 1, Append(r, e.tok))
                 : e \in ConvertElem(ngram[i]) }

(* convert with the loop bound off by one (i < len - 1): the last element is dropped *)
convert_SkippingLast(ngram) ==
    ConvertFrom(SubSeq(ngram, 1, Max(Len(ngram) - 1, 0)), 1, <<>>)

(* convert(py::list&): the set of outcomes, one unless the code's           *)
(* behaviour is undefined.                                                 *)
convert(ngram) == ConvertFrom(ngram, 1, <<>>)

---------------------------------------------------------------------------
(* Arithmetic for the statistics and for float results *)

RECURSIVE SumOver(_, _)
SumOver(S, f) ==
    IF S = {} THEN 0
    ELSE LET x == CHOOSE y \in S : TRUE IN f[x] + SumOver(S \ {x}, f)

(* 1000 * log2(n), rounded, for n in 1..16; beyond, log2(n) = 4 + log2(n / 16) *)
Log2Table == <<0, 1000, 1585, 2000, 2322, 2585, 2807, 3000,
               3170, 3322, 3459, 3585, 3700, 3807, 3907, 4000>>
RECURSIVE Log2Milli(_)
Log2Milli(n) == IF n <= 16 THEN Log2Table[n] ELSE 4000 + Log2Milli(n \div 16)

(* the integer square root, by bisection: lo * lo <= v < hi * hi *)
RECURSIVE IsqrtIn(_, _, _)
IsqrtIn(v, lo, hi) ==
    IF hi - lo <= 1 THEN lo
    ELSE LET mid == (lo + hi) \div 2 IN
         IF mid * mid <= v THEN IsqrtIn(v, mid, hi) ELSE IsqrtIn(v, lo, mid)
Isqrt(v) == IsqrtIn(v, 0, 46341)

(* A C++ float holds 24 significant bits. *)
FloatMantissa == 16777216

RECURSIVE Ulp(_, _)
Ulp(n, u) == IF n \div u < FloatMantissa THEN u ELSE Ulp(n, 2 * u)

(* the conversion of a non-negative integer to float: the nearest float,    *)
(* ties to even                                                            *)
ToFloat(n) ==
    LET u == Ulp(n, 1)
        q == n \div u
        r == n % u
    IN  IF 2 * r < u THEN q * u
        ELSE IF 2 * r > u THEN (q + 1) * u
        ELSE IF q % 2 = 0 THEN q * u ELSE (q + 1) * u

---------------------------------------------------------------------------
(* LeveldbTrie, the engine behind PyLeveldbTrie.  t is the instance with    *)
(* the store at its path: counts (encoded n-gram -> count, one entry per    *)
(* n-gram stored) and depth are the store's content and outlive the         *)
(* instance; open, dirty and normalization are members.  Every operation    *)
(* returns [t, err, val]: the instance afterwards, the condition it failed  *)
(* with ("none" when it did not) and its result.                           *)

NoCounts == [s \in {} |-> 0]

Count(counts, s) == IF s \in DOMAIN counts THEN counts[s] ELSE 0

Put(counts, s, v) ==
    [x \in DOMAIN counts \cup {s} |-> IF x = s THEN v ELSE counts[x]]

Result(t, err, val) == [crash |-> FALSE, t |-> t, err |-> err, val |-> val]
Closed(t) == Result(t, "closed", 0)

LeveldbTrie_add_ngram(t, ngram, freq) ==
    IF ~t.open THEN Closed(t)
    ELSE Result([t EXCEPT !.counts = Put(@, ngram, Count(@, ngram) + freq),
                          !.depth = Max(@, Len(ngram)),
                          !.dirty = TRUE], "none", 0)

LeveldbTrie_query_count(t, ngram) ==
    IF ~t.open THEN Closed(t) ELSE Result(t, "none", Count(t.counts, ngram))

Children(t, ngram) ==
    {c \in DOMAIN t.counts : /\ Len(c) = Len(ngram) + 1
                             /\ SubSeq(c, 1, Len(ngram)) = ngram
                             /\ t.counts[c] > 0}

(* H = -sum p log2 p over the children, p = count / total; 0 without        *)
(* children.  In thousandths; counts beyond 1024 in total are first scaled  *)
(* down together, which leaves the p within a thousandth.                  *)
Entropy(t, ngram) ==
    LET ch == Children(t, ngram)
        sum == SumOver(ch, t.counts)
        scale == IF sum <= 1024 THEN 1 ELSE (sum \div 1024) + 1
        cnt == [c \in ch |-> t.counts[c] \div scale]
        CLog == [c \in ch |-> IF cnt[c] = 0 THEN 0 ELSE cnt[c] * Log2Milli(cnt[c])]
        total == SumOver(ch, cnt)
    IN  IF total = 0 THEN 0
        ELSE (total * Log2Milli(total) - SumOver(ch, CLog)) \div total

LeveldbTrie_query_entropy(t, ngram) ==
    IF ~t.open THEN Closed(t) ELSE Result(t, "none", Entropy(t, ngram))

(* entropy at ngram minus entropy at ngram without its last token *)
Ev(t, ngram) ==
    IF Len(ngram) = 0 THEN Entropy(t, ngram)
    ELSE Entropy(t, ngram) - Entropy(t, SubSeq(ngram, 1, Len(ngram) - 1))

LeveldbTrie_query_ev(t, ngram) ==
    IF ~t.open THEN Closed(t) ELSE Result(t, "none", Ev(t, ngram))

(* (ev - mean) / stdev with the entry of depth len(ngram) *)
LeveldbTrie_query_autonomy(t, ngram) ==
    IF ~t.open THEN Closed(t)
    ELSE IF Len(ngram) \notin DOMAIN t.normalization
         THEN Result(t, "normalization unavailable", 0)
    ELSE LET norm == t.normalization[Len(ngram)] IN
         IF norm.stdev = 0 THEN Result(t, "normalization unavailable", 0)
         ELSE Result(t, "none", ((Ev(t, ngram) - norm.mean) * 1000) \div norm.stdev)

(* the (mean, stdev) of ev over the nodes stored at each depth *)
Normalize(t) ==
    [d \in 1..t.depth |->
        LET nodes == {s \in DOMAIN t.counts : Len(s) = d /\ t.counts[s] > 0}
            n == Cardinality(nodes)
            EvOf == [s \in nodes |-> Ev(t, s)]
            mean == IF n = 0 THEN 0 ELSE SumOver(nodes, EvOf) \div n
            Sq == [s \in nodes |-> (EvOf[s] - mean) * (EvOf[s] - mean)]
        IN  IF n = 0 THEN [mean |-> 0, stdev |-> 0]
            ELSE [mean |-> mean, stdev |-> Isqrt(SumOver(nodes, Sq) \div n)]]

LeveldbTrie_update_stats(t) ==
    IF ~t.open THEN Closed(t)
    ELSE Result([t EXCEPT !.normalization = Normalize(t), !.dirty = FALSE], "none", 0)

LeveldbTrie_max_depth(t) ==
    IF ~t.open THEN Closed(t) ELSE Result(t, "none", t.depth)

LeveldbTrie_clear(t) ==
    IF ~t.open THEN Closed(t)
    ELSE Result([t EXCEPT !.counts = NoCounts, !.depth = 0,
                          !.normalization = <<>>, !.dirty = FALSE], "none", 0)

LeveldbTrie_close(t) ==
    IF ~t.open THEN Closed(t) ELSE Result([t EXCEPT !.open = FALSE], "none", 0)

(* LeveldbTrie(path) on the path of a closed instance: counts and depth are *)
(* rehydrated; the normalization is loaded as persisted, or recomputed.    *)
LeveldbTrie_new(t, recompute) ==
    LET n == [t EXCEPT !.open = TRUE] IN
    IF recompute THEN [n EXCEPT !.normalization = Normalize(n), !.dirty = FALSE]
    ELSE n

FreshTrie ==
    [open |-> TRUE, dirty |-> FALSE, normalization |-> <<>>,
     counts |-> NoCounts, depth |-> 0]

---------------------------------------------------------------------------
(* PyLeveldbTrie: the wrappers and the method table *)

Crash(t) == [crash |-> TRUE, t |-> t, err |-> "crash", val |-> 0]

(* add_ngram_ written like add_ngram__: the freq argument is not passed on *)
add_ngram_IgnoringFreq(t, ngram, freq) ==
    {IF c.crash THEN Crash(t) ELSE LeveldbTrie_add_ngram(t, c.r, 1) : c \in convert(ngram)}

PyLeveldbTrie_add_ngram_(t, ngram, freq) ==
    {IF c.crash THEN Crash(t) ELSE LeveldbTrie_add_ngram(t, c.r, freq) : c \in convert(ngram)}

PyLeveldbTrie_add_ngram__(t, ngram) ==
    {IF c.crash THEN Crash(t) ELSE LeveldbTrie_add_ngram(t, c.r, 1) : c \in convert(ngram)}

PyLeveldbTrie_query_count_(t, ngram) ==
    {IF c.crash THEN Crash(t) ELSE LeveldbTrie_query_count(t, c.r) : c \in convert(ngram)}

PyLeveldbTrie_query_entropy_(t, ngram) ==
    {IF c.crash THEN Crash(t) ELSE LeveldbTrie_query_entropy(t, c.r) : c \in convert(ngram)}

PyLeveldbTrie_query_ev_(t, ngram) ==
    {IF c.crash THEN Crash(t) ELSE LeveldbTrie_query_ev(t, c.r) : c \in convert(ngram)}

(* query_autonomy_ forwarding to query_ev *)
query_autonomy_AsEv(t, ngram) ==
    {IF c.crash THEN Crash(t) ELSE LeveldbTrie_query_ev(t, c.r) : c \in convert(ngram)}

PyLeveldbTrie_query_autonomy_(t, ngram) ==
    {IF c.crash THEN Crash(t) ELSE LeveldbTrie_query_autonomy(t, c.r) : c \in convert(ngram)}

(* get_dirty returning !dirty *)
get_dirty_Negated(t) == ~t.dirty

PyLeveldbTrie_get_dirty(t) == t.dirty

PyLeveldbTrie_get_normalization(t) ==
    [i \in DOMAIN t.normalization |-> <<t.normalization[i].mean, t.normalization[i].stdev>>]

(* class_<PyLeveldbTrie>: init<std::string> and the members bound as they are *)
(* the method table with a name bound to the wrong member, and the          *)
(* constructor opening a store at another, empty path                      *)
Def_init_OtherPath(t, recompute) == FreshTrie
Def_clear_AsUpdateStats(t) == LeveldbTrie_update_stats(t)
Def_close_AsClear(t) == LeveldbTrie_clear(t)

Def_init(t, recompute) == LeveldbTrie_new(t, recompute)
Def_update_stats(t) == LeveldbTrie_update_stats(t)
Def_max_depth(t) == LeveldbTrie_max_depth(t)
Def_clear(t) == LeveldbTrie_clear(t)
Def_close(t) == LeveldbTrie_close(t)

---------------------------------------------------------------------------
(* LeveldbStorage, the engine behind PyLeveldbStorage: one Trie per order   *)
(* 1..ngram_length and the terminal tokens.                                *)

Repeat(x, n) == [i \in 1..n |-> x]

(* the sentence with ngram_length - 1 terminals at each end *)
Pad(st, sentence) ==
    LET p == Repeat(st.terminals[1], st.ngram_length - 1) IN p \o sentence \o p

(* the windows of k consecutive tokens, left to right *)
Windows(seq, k) == [i \in 1..(Len(seq) - k + 1) |-> SubSeq(seq, i, i + k - 1)]

RECURSIVE AddAll(_, _, _, _)
AddAll(t, wins, i, freq) ==
    IF i > Len(wins) THEN t
    ELSE AddAll(LeveldbTrie_add_ngram(t, wins[i], freq).t, wins, i + 1, freq)

LeveldbStorage_new(order, terms) ==
    [ngram_length |-> order, terminals |-> terms,
     tries |-> [k \in 1..order |-> FreshTrie]]

LeveldbStorage_add_sentence(st, sentence, freq) ==
    Result([st EXCEPT !.tries =
                [k \in 1..st.ngram_length |->
                    AddAll(st.tries[k], Windows(Pad(st, sentence), k), 1, freq)]],
           "none", 0)

Unsupported(st, ngram) == Len(ngram) < 1 \/ Len(ngram) > st.ngram_length

LeveldbStorage_query_count(st, ngram) ==
    IF Unsupported(st, ngram) THEN Result(st, "unsupported order", 0)
    ELSE LET r == LeveldbTrie_query_count(st.tries[Len(ngram)], ngram)
         IN  Result(st, r.err, r.val)

LeveldbStorage_query_entropy(st, ngram) ==
    IF Unsupported(st, ngram) THEN Result(st, "unsupported order", 0)
    ELSE LET r == LeveldbTrie_query_entropy(st.tries[Len(ngram)], ngram)
         IN  Result(st, r.err, r.val)

LeveldbStorage_query_ev(st, ngram) ==
    IF Unsupported(st, ngram) THEN Result(st, "unsupported order", 0)
    ELSE LET r == LeveldbTrie_query_ev(st.tries[Len(ngram)], ngram)
         IN  Result(st, r.err, r.val)

LeveldbStorage_query_autonomy(st, ngram) ==
    IF Unsupported(st, ngram) THEN Result(st, "unsupported order", 0)
    ELSE LET r == LeveldbTrie_query_autonomy(st.tries[Len(ngram)], ngram)
         IN  Result(st, r.err, r.val)

LeveldbStorage_update_stats(st) ==
    Result([st EXCEPT !.tries =
                [k \in 1..st.ngram_length |-> LeveldbTrie_update_stats(st.tries[k]).t]],
           "none", 0)

LeveldbStorage_clear(st) ==
    Result([st EXCEPT !.tries =
                [k \in 1..st.ngram_length |-> LeveldbTrie_clear(st.tries[k]).t]],
           "none", 0)

---------------------------------------------------------------------------
(* PyLeveldbStorage: the constructor, the wrappers and the method table *)

PyLeveldbStorage_new(order, terminals) ==
    {IF c.crash THEN Crash(LeveldbStorage_new(order, <<>>))
     ELSE Result(LeveldbStorage_new(order, c.r), "none", 0) : c \in convert(terminals)}

PyLeveldbStorage_add_sentence_(st, sentence, freq) ==
    {IF c.crash THEN Crash(st) ELSE LeveldbStorage_add_sentence(st, c.r, freq)
        : c \in convert(sentence)}

PyLeveldbStorage_add_sentence__(st, sentence) ==
    {IF c.crash THEN Crash(st) ELSE LeveldbStorage_add_sentence(st, c.r, 1)
        : c \in convert(sentence)}

(* float query_count_(py::list): the count leaves as a float *)
PyLeveldbStorage_query_count_(st, ngram) ==
    {IF c.crash THEN Crash(st)
     ELSE LET r == LeveldbStorage_query_count(st, c.r) IN [r EXCEPT !.val = ToFloat(@)]
        : c \in convert(ngram)}

PyLeveldbStorage_query_entropy_(st, ngram) ==
    {IF c.crash THEN Crash(st) ELSE LeveldbStorage_query_entropy(st, c.r) : c \in convert(ngram)}

PyLeveldbStorage_query_ev_(st, ngram) ==
    {IF c.crash THEN Crash(st) ELSE LeveldbStorage_query_ev(st, c.r) : c \in convert(ngram)}

PyLeveldbStorage_query_autonomy_(st, ngram) ==
    {IF c.crash THEN Crash(st) ELSE LeveldbStorage_query_autonomy(st, c.r) : c \in convert(ngram)}

PyLeveldbStorage_get_ngram_length(st) == st.ngram_length

SDef_update_stats(st) == LeveldbStorage_update_stats(st)
SDef_clear(st) == LeveldbStorage_clear(st)

---------------------------------------------------------------------------
(* What the caller hands in, and the record kept of the calls made *)

(* the token sequence a list of well-formed values stands for *)
StrForm(L) == [i \in 1..Len(L) |-> L[i].text]

Freqs == {1, 2}

Terminal == PyStr("#")
SValues == GoodValues
Sentences == ListsOf(SValues, MaxSentLen)
SQueryLists == ListsOf(SValues \cup {Terminal}, Order + 1)
SFreqs == {1, FloatMantissa + 1}

NoHist ==
    [added |-> NoCounts,        \* per sequence, the sum of the freq of its add_ngram calls
     nadds |-> 0,               \* add_ngram calls since the store was last empty
     maxlen |-> 0,              \* longest list added since the store was last empty
     addSinceUpdate |-> FALSE,  \* an add_ngram ran since the last update_stats
     addSinceReset |-> FALSE,   \* an add_ngram ran since the last update_stats or clear
     closeCalled |-> FALSE,     \* close() returned on the instance
     reopened |-> FALSE,        \* the instance was constructed on the path of a closed one
     snapCount |-> NoCounts,    \* query_count of every list just before close()
     snapDepth |-> 0]           \* max_depth() just before close()

NoSHist ==
    [sent |-> NoCounts,         \* per sentence, the sum of the freq of its add_sentence calls
     nsent |-> 0]               \* add_sentence calls since the last clear

Init ==
    /\ obj \in {"trie", "reopen", "storage", "convert"}
    /\ alive = TRUE
    /\ conv = [in |-> <<>>, out |-> [crash |-> FALSE, r |-> <<>>]]
    /\ trie = FreshTrie
    /\ hist = NoHist
    /\ storage \in {r.t : r \in PyLeveldbStorage_new(Order, <<Terminal>>)}
    /\ shist = NoSHist

---------------------------------------------------------------------------
(* Calls on the Trie *)

OnTrie == obj \in {"trie", "reopen"} /\ alive

(* the value query_count / max_depth return right now *)
CountNow(t, L) == (CHOOSE r \in PyLeveldbTrie_query_count_(t, L) : TRUE).val
DepthNow(t) == Def_max_depth(t).val

Apply(r) ==
    /\ alive' = ~r.crash
    /\ trie' = r.t
    /\ UNCHANGED <<obj, conv, storage, shist>>

Added(L, f, r) ==
    IF r.crash \/ r.err # "none" THEN hist
    ELSE [hist EXCEPT !.added = Put(@, StrForm(L), Count(@, StrForm(L)) + f),
                      !.nadds = @ + 1,
                      !.maxlen = Max(@, Len(L)),
                      !.addSinceUpdate = TRUE,
                      !.addSinceReset = TRUE]

CanAdd ==
    \/ hist.nadds < (IF obj = "reopen" THEN MaxLifeAdds ELSE MaxAdds)
    \/ ~trie.open

(* t.add_ngram(ngram, freq) *)
CallAddNgramFreq ==
    \E L \in PyLists, f \in Freqs :
        /\ OnTrie /\ CanAdd
        /\ \E r \in PyLeveldbTrie_add_ngram_(trie, L, f) :
              Apply(r) /\ hist' = Added(L, f, r)

(* t.add_ngram(ngram) *)
CallAddNgram ==
    \E L \in PyLists :
        /\ OnTrie /\ CanAdd
        /\ \E r \in PyLeveldbTrie_add_ngram__(trie, L) :
              Apply(r) /\ hist' = Added(L, 1, r)

CallQueryCount ==
    \E L \in PyLists :
        /\ OnTrie
        /\ \E r \in PyLeveldbTrie_query_count_(trie, L) : Apply(r)
        /\ UNCHANGED hist

CallQueryEntropy ==
    \E L \in PyLists :
        /\ OnTrie
        /\ \E r \in PyLeveldbTrie_query_entropy_(trie, L) : Apply(r)
        /\ UNCHANGED hist

CallQueryEv ==
    \E L \in PyLists :
        /\ OnTrie
        /\ \E r \in PyLeveldbTrie_query_ev_(trie, L) : Apply(r)
        /\ UNCHANGED hist

CallQueryAutonomy ==
    \E L \in PyLists :
        /\ OnTrie
        /\ \E r \in PyLeveldbTrie_query_autonomy_(trie, L) : Apply(r)
        /\ UNCHANGED hist

CallMaxDepth ==
    /\ OnTrie
    /\ Apply(Def_max_depth(trie))
    /\ UNCHANGED hist

CallUpdateStats ==
    /\ OnTrie
    /\ LET r == Def_update_stats(trie) IN
          /\ Apply(r)
          /\ hist' = IF r.err # "none" THEN hist
                     ELSE [hist EXCEPT !.addSinceUpdate = FALSE, !.addSinceReset = FALSE]

CallClear ==
    /\ OnTrie
    /\ LET r == Def_clear(trie) IN
          /\ Apply(r)
          /\ hist' = IF r.err # "none" THEN hist
                     ELSE [hist EXCEPT !.added = NoCounts, !.nadds = 0, !.maxlen = 0,
                                       !.addSinceReset = FALSE]

CallClose ==
    /\ OnTrie /\ obj = "reopen"
    /\ LET r == Def_close(trie) IN
          /\ Apply(r)
          /\ hist' = IF r.err # "none" THEN hist
                     ELSE [hist EXCEPT !.closeCalled = TRUE,
                                       !.snapCount = [L \in PyLists |-> CountNow(trie, L)],
                                       !.snapDepth = DepthNow(trie)]

(* LeveldbTrie(path) again, once the instance that held the path is closed *)
CallConstruct ==
    \E recompute \in BOOLEAN :
        /\ OnTrie /\ ~trie.open
        /\ trie' = Def_init(trie, recompute)
        /\ hist' = [hist EXCEPT !.closeCalled = FALSE, !.reopened = TRUE,
                                !.snapCount = NoCounts, !.snapDepth = 0,
                                !.addSinceUpdate = FALSE, !.addSinceReset = FALSE]
        /\ UNCHANGED <<obj, alive, conv, storage, shist>>

---------------------------------------------------------------------------
(* Calls on the Storage *)

OnStorage == obj = "storage" /\ alive

SApply(r) ==
    /\ alive' = ~r.crash
    /\ storage' = r.t
    /\ UNCHANGED <<obj, conv, trie, hist>>

SAdded(S, f, r) ==
    IF r.crash \/ r.err # "none" THEN shist
    ELSE [shist EXCEPT !.sent = Put(@, StrForm(S), Count(@, StrForm(S)) + f),
                       !.nsent = @ + 1]

(* s.add_sentence(sentence, freq) *)
SCallAddSentenceFreq ==
    \E S \in Sentences, f \in SFreqs :
        /\ OnStorage /\ shist.nsent < MaxSentences
        /\ \E r \in PyLeveldbStorage_add_sentence_(storage, S, f) :
              SApply(r) /\ shist' = SAdded(S, f, r)

(* s.add_sentence(sentence) *)
SCallAddSentence ==
    \E S \in Sentences :
        /\ OnStorage /\ shist.nsent < MaxSentences
        /\ \E r \in PyLeveldbStorage_add_sentence__(storage, S) :
              SApply(r) /\ shist' = SAdded(S, 1, r)

SCallQueryCount ==
    \E L \in SQueryLists :
        /\ OnStorage
        /\ \E r \in PyLeveldbStorage_query_count_(storage, L) : SApply(r)
        /\ UNCHANGED shist

SCallQueryEntropy ==
    \E L \in SQueryLists :
        /\ OnStorage
        /\ \E r \in PyLeveldbStorage_query_entropy_(storage, L) : SApply(r)
        /\ UNCHANGED shist

SCallQueryEv ==
    \E L \in SQueryLists :
        /\ OnStorage
        /\ \E r \in PyLeveldbStorage_query_ev_(storage, L) : SApply(r)
        /\ UNCHANGED shist

SCallQueryAutonomy ==
    \E L \in SQueryLists :
        /\ OnStorage
        /\ \E r \in PyLeveldbStorage_query_autonomy_(storage, L) : SApply(r)
        /\ UNCHANGED shist

SCallUpdateStats ==
    /\ OnStorage
    /\ SApply(SDef_update_stats(storage))
    /\ UNCHANGED shist

SCallClear ==
    /\ OnStorage
    /\ SApply(SDef_clear(storage))
    /\ shist' = NoSHist

---------------------------------------------------------------------------
(* convert on its own, on lists of any values *)

CallConvert ==
    \E L \in ListsOf(AllValues, MaxConvLen) :
        /\ obj = "convert" /\ alive
        /\ \E c \in convert(L) :
              /\ conv' = [in |-> L, out |-> c]
              /\ alive' = ~c.crash
        /\ UNCHANGED <<obj, trie, hist, storage, shist>>

Next ==
    \/ CallAddNgramFreq
    \/ CallAddNgram
    \/ CallQueryCount
    \/ CallQueryEntropy
    \/ CallQueryEv
    \/ CallQueryAutonomy
    \/ CallMaxDepth
    \/ CallUpdateStats
    \/ CallClear
    \/ CallClose
    \/ CallConstruct
    \/ SCallAddSentenceFreq
    \/ SCallAddSentence
    \/ SCallQueryCount
    \/ SCallQueryEntropy
    \/ SCallQueryEv
    \/ SCallQueryAutonomy
    \/ SCallUpdateStats
    \/ SCallClear
    \/ CallConvert

Spec == Init /\ [][Next]_vars

---------------------------------------------------------------------------
(* Properties *)

TrieInUse == obj \in {"trie", "reopen"} /\ alive /\ trie.open

(* every result a call on the Trie with list L can give, per query *)
Queries(t, L) ==
    PyLeveldbTrie_query_count_(t, L) \cup PyLeveldbTrie_query_entropy_(t, L)
        \cup PyLeveldbTrie_query_ev_(t, L) \cup PyLeveldbTrie_query_autonomy_(t, L)
        \cup {Def_max_depth(t)}

(* C1: on a Trie, query_count of every sequence is the sum of the freq of   *)
(* the add_ngram calls made with that sequence since the store was empty    *)
(* (1 for a call without freq); 0 for a sequence never added.              *)
C1_CountIsSumOfFreqs ==
    TrieInUse =>
        \A L \in PyLists : \A r \in PyLeveldbTrie_query_count_(trie, L) :
            /\ ~r.crash /\ r.err = "none"
            /\ r.val = Count(hist.added, StrForm(L))

C1_Witness ==
    /\ TrieInUse /\ hist.nadds = 2
    /\ \E L, M \in PyLists :
          /\ CountNow(trie, L) = 3
          /\ StrForm(M) \notin DOMAIN hist.added /\ CountNow(trie, M) = 0

(* C3 as stated: dirty is true whenever an add_ngram ran since the last     *)
(* update_stats.                                                           *)
C3_DirtySinceUpdateStats ==
    (TrieInUse /\ hist.addSinceUpdate) => PyLeveldbTrie_get_dirty(trie)

(* no query on Trie t with any list changes dirty *)
QueriesKeepDirty(t) ==
    \A L \in PyLists : \A r \in Queries(t, L) :
        PyLeveldbTrie_get_dirty(r.t) = PyLeveldbTrie_get_dirty(t)

(* C3, amended: on an open Trie dirty is true whenever an add_ngram ran     *)
(* since the last update_stats or clear; update_stats and clear, called in  *)
(* any reachable state, leave dirty false; no query changes dirty.          *)
C3_DirtySinceReset ==
    TrieInUse =>
        /\ hist.addSinceReset => PyLeveldbTrie_get_dirty(trie)
        /\ ~PyLeveldbTrie_get_dirty(Def_update_stats(trie).t)
        /\ ~PyLeveldbTrie_get_dirty(Def_clear(trie).t)
        /\ QueriesKeepDirty(trie)

C3_Witness ==
    /\ TrieInUse /\ hist.addSinceReset /\ PyLeveldbTrie_get_dirty(trie)
    /\ Len(PyLeveldbTrie_get_normalization(trie)) > 0

(* C4: once close() has returned, every operation on the instance fails     *)
(* with "closed" and leaves the instance, closed, and the store as they     *)
(* are.                                                                    *)
C4_ClosedIsTerminal ==
    (obj = "reopen" /\ hist.closeCalled) =>
        /\ \A L \in PyLists :
              \A r \in Queries(trie, L) \cup PyLeveldbTrie_add_ngram__(trie, L)
                         \cup UNION {PyLeveldbTrie_add_ngram_(trie, L, f) : f \in Freqs} :
                  r.err = "closed" /\ r.t = trie
        /\ \A r \in {Def_update_stats(trie), Def_clear(trie), Def_close(trie)} :
              r.err = "closed" /\ r.t = trie
        /\ ~trie.open

C4_Witness ==
    /\ obj = "reopen" /\ hist.closeCalled
    /\ hist.nadds > 0 /\ Len(trie.normalization) > 0

(* what the caller expects of a Trie just cleared *)
Cleared(t) ==
    /\ \A L \in PyLists : \A r \in PyLeveldbTrie_query_count_(t, L) :
          r.err = "none" /\ r.val = 0
    /\ Def_max_depth(t).err = "none" /\ Def_max_depth(t).val = 0
    /\ PyLeveldbTrie_get_normalization(t) = <<>>
    /\ ~PyLeveldbTrie_get_dirty(t)

SCleared(st) ==
    /\ \A L \in SQueryLists : \A r \in PyLeveldbStorage_query_count_(st, L) :
          r.err = "none" => r.val = 0
    /\ \A k \in 1..PyLeveldbStorage_get_ngram_length(st) :
          /\ st.tries[k].counts = NoCounts
          /\ LeveldbTrie_max_depth(st.tries[k]).val = 0
          /\ st.tries[k].normalization = <<>>
          /\ ~st.tries[k].dirty

C6_Step ==
    /\ (CallClear /\ trie.open) => Cleared(trie')
    /\ SCallClear => SCleared(storage')

(* C6: clear() leaves a Trie with count 0 for every sequence, max_depth()   *)
(* 0, an empty normalization table and dirty false, whatever came before;   *)
(* Storage.clear() does so for the Trie of every order.                    *)
C6_ClearEmpties == [][C6_Step]_vars

C6_Witness ==
    /\ TrieInUse /\ hist.addSinceUpdate /\ hist.nadds = 0
    /\ Cleared(trie)

C7_Step ==
    /\ trie'.open =>
          /\ Def_max_depth(trie').err = "none"
          /\ Def_max_depth(trie').val = hist'.maxlen
    /\ (trie.open /\ trie'.open /\ ~CallClear) => DepthNow(trie') >= DepthNow(trie)

(* C7: on an open Trie max_depth() is the length of the longest list added  *)
(* since the store was last empty, and only clear lowers it.               *)
C7_MaxDepthIsLongest == [][C7_Step]_vars

C7_Witness ==
    /\ TrieInUse /\ DepthNow(trie) = 2 /\ hist.nadds = 2
    /\ \E L \in PyLists : Len(L) = 1 /\ CountNow(trie, L) > 0

NoEntry(t, L) ==
    \/ Len(L) \notin DOMAIN PyLeveldbTrie_get_normalization(t)
    \/ PyLeveldbTrie_get_normalization(t)[Len(L)][2] = 0

Unseen(L) == StrForm(L) \notin DOMAIN hist.added

AutonomyFails(t, L) ==
    NoEntry(t, L) =>
        \A r \in PyLeveldbTrie_query_autonomy_(t, L) : r.err = "normalization unavailable"

(* C8 as stated: ... and query_count and query_entropy return 0 on every    *)
(* sequence never added.                                                   *)
C8_UnseenEntropyZero ==
    TrieInUse =>
        \A L \in PyLists :
            /\ AutonomyFails(trie, L)
            /\ \A r \in PyLeveldbTrie_query_count_(trie, L)
                          \cup PyLeveldbTrie_query_entropy_(trie, L) :
                  r.err = "none" /\ (Unseen(L) => r.val = 0)

(* C8, amended: query_autonomy fails wherever the table has no entry for    *)
(* the depth or the entry's stdev is 0; query_count and query_entropy never *)
(* fail; query_count returns 0 on a sequence never added, and query_entropy *)
(* returns 0 on a sequence no one-token extension of which was added.      *)
C8_AutonomyNeedsNormalization ==
    TrieInUse =>
        \A L \in PyLists :
            /\ AutonomyFails(trie, L)
            /\ \A r \in PyLeveldbTrie_query_count_(trie, L) :
                  r.err = "none" /\ (Unseen(L) => r.val = 0)
            /\ \A r \in PyLeveldbTrie_query_entropy_(trie, L) :
                  /\ r.err = "none"
                  /\ (\A M \in DOMAIN hist.added :
                         ~(Len(M) = Len(L) + 1 /\ SubSeq(M, 1, Len(L)) = StrForm(L)))
                     => r.val = 0

C8_Witness ==
    /\ TrieInUse
    /\ \E L, M \in PyLists :
          /\ Len(L) \in DOMAIN trie.normalization /\ NoEntry(trie, L)
          /\ \E r \in PyLeveldbTrie_query_autonomy_(trie, L) :
                r.err = "normalization unavailable"
          /\ Len(M) \notin DOMAIN trie.normalization /\ CountNow(trie, M) > 0
          /\ \E r \in PyLeveldbTrie_query_autonomy_(trie, M) :
                r.err = "normalization unavailable"

C9_Step ==
    /\ (CallClose /\ trie.open) =>
          /\ \A L \in PyLists : Count(trie'.counts, StrForm(L)) = CountNow(trie, L)
          /\ trie'.depth = DepthNow(trie)
    /\ CallConstruct =>
          /\ \A L \in PyLists : \A r \in PyLeveldbTrie_query_count_(trie', L) :
                r.err = "none" /\ r.val = hist.snapCount[L]
          /\ Def_max_depth(trie').err = "none"
          /\ Def_max_depth(trie').val = hist.snapDepth

---------------------------------------------------------------------------
(* Properties of the Storage and of convert *)

StorageInUse == obj = "storage" /\ alive

(* what the caller expects of add_sentence: the order N, the terminal T,    *)
(* the padded sentence and the number of places w occurs in it             *)
Padded(sent) ==
    LET N == PyLeveldbStorage_get_ngram_length(storage)
        T == Terminal.text
    IN  Repeat(T, N - 1) \o sent \o Repeat(T, N - 1)

Occurrences(w, seq) ==
    Cardinality({i \in 1..(Len(seq) - Len(w) + 1) : SubSeq(seq, i, i + Len(w) - 1) = w})

ExpectedCount(w) ==
    SumOver(DOMAIN shist.sent,
            [x \in DOMAIN shist.sent |-> shist.sent[x] * Occurrences(w, Padded(x))])

Supported(L) == 1 <= Len(L) /\ Len(L) <= PyLeveldbStorage_get_ngram_length(storage)

(* C2: after add_sentence calls on an empty Storage, query_count(w) for     *)
(* 1 <= len(w) <= N is the sum over the calls of f times the number of      *)
(* places w occurs as a window of the padded sentence.                     *)
C2_CountIsWindowSum ==
    StorageInUse =>
        \A L \in SQueryLists : Supported(L) =>
            \A r \in PyLeveldbStorage_query_count_(storage, L) :
                r.err = "none" /\ r.val = ExpectedCount(StrForm(L))

(* the same of the counts the Tries of the Storage hold *)
C2_StoredCountIsWindowSum ==
    StorageInUse =>
        \A L \in SQueryLists : Supported(L) =>
            LeveldbStorage_query_count(storage, StrForm(L)).val = ExpectedCount(StrForm(L))

(* the result (condition and value) of a query *)
Outcome(R) == {<<r.err, r.val>> : r \in R}

Dispatched(L) ==
    LET t == storage.tries[Len(L)] IN
    /\ Outcome(PyLeveldbStorage_query_count_(storage, L))
          = Outcome(PyLeveldbTrie_query_count_(t, L))
    /\ Outcome(PyLeveldbStorage_query_entropy_(storage, L))
          = Outcome(PyLeveldbTrie_query_entropy_(t, L))
    /\ Outcome(PyLeveldbStorage_query_ev_(storage, L))
          = Outcome(PyLeveldbTrie_query_ev_(t, L))
    /\ Outcome(PyLeveldbStorage_query_autonomy_(storage, L))
          = Outcome(PyLeveldbTrie_query_autonomy_(t, L))

Refused(L) ==
    \A r \in PyLeveldbStorage_query_count_(storage, L)
               \cup PyLeveldbStorage_query_entropy_(storage, L)
               \cup PyLeveldbStorage_query_ev_(storage, L)
               \cup PyLeveldbStorage_query_autonomy_(storage, L) :
        r.err = "unsupported order" /\ r.t = storage

(* C5: a Storage query on s returns what the same query returns on the      *)
(* Trie of order len(s) when 1 <= len(s) <= N, and otherwise fails with     *)
(* "unsupported order" and changes nothing.                                *)
C5_DispatchByOrder ==
    StorageInUse =>
        \A L \in SQueryLists : IF Supported(L) THEN Dispatched(L) ELSE Refused(L)

(* the same but for the float a Storage's query_count returns *)
C5_DispatchUpToFloat ==
    StorageInUse =>
        \A L \in SQueryLists :
            IF ~Supported(L) THEN Refused(L)
            ELSE LET t == storage.tries[Len(L)] IN
                 /\ Outcome(PyLeveldbStorage_query_count_(storage, L))
                       = {<<r.err, ToFloat(r.val)>> : r \in PyLeveldbTrie_query_count_(t, L)}
                 /\ Outcome(PyLeveldbStorage_query_entropy_(storage, L))
                       = Outcome(PyLeveldbTrie_query_entropy_(t, L))
                 /\ Outcome(PyLeveldbStorage_query_ev_(storage, L))
                       = Outcome(PyLeveldbTrie_query_ev_(t, L))
                 /\ Outcome(PyLeveldbStorage_query_autonomy_(storage, L))
                       = Outcome(PyLeveldbTrie_query_autonomy_(t, L))

(* C10: convert returns, for any list, the sequence of the same length      *)
(* whose i-th element is the text of the i-th value (its str() form when    *)
(* it is not a str).                                                       *)
C10_ConvertIsTotal ==
    obj = "convert" =>
        /\ ~conv.out.crash
        /\ conv.out.r = [i \in 1..Len(conv.in) |-> conv.in[i].text]

(* the same of the lists whose values all have a text *)
C10_ConvertOfWellFormed ==
    (obj = "convert" /\ \A i \in 1..Len(conv.in) : conv.in[i].ok) =>
        /\ ~conv.out.crash
        /\ conv.out.r = [i \in 1..Len(conv.in) |-> conv.in[i].text]

=============================================================================
